---- MODULE Spec2Model ----
(***************************************************************************)
(* Model of src/ql/arch/crossbar/example.py: a straight-line script that   *)
(* sets four compiler options, constructs a Platform, a Program and a      *)
(* Kernel, appends six gates to the kernel, adds the kernel to the program *)
(* and compiles it.  The compiler library (openql) is external: each call  *)
(* into it either returns some value or raises.  Strings that are paths    *)
(* are sequences of tokens, a token being either the separator "/" or a    *)
(* non-empty chunk without separator.                                      *)
(***************************************************************************)
EXTENDS Integers, Sequences, FiniteSets, TLC

\* ------------------------------------------------------------------ bounds
\* values the library may return from a call: 1..NumResults
NumResults == 2
\* longest directory prefix (in tokens) of the path the script is run by
MaxPrefix == 3

\* ------------------------------------------------------- program constants
\* the line after the last line of the file: the script has run to its end
EndOfScript == 38
\* a name that has not been bound yet
UnboundInt == -1
UnboundObj == 0
UnboundStr == <<"<unbound>">>

VARIABLES
  file,        \* __file__: the path the script was started by
  pc,          \* line of the statement to execute next
  active,      \* lines whose library call has started and not yet ended
  exc,         \* 0, or the line whose library call raised (uncaught)
  calls,       \* the library calls made so far, in order
  executed,    \* how many times each statement has been started
  imported,    \* module names bound by the import statements
  lastRet,     \* value returned by the last library call
  curdir, output_dir, num_qubits, num_creg, config,
  platform, program, kernel

vars == <<file, pc, active, exc, calls, executed, imported, lastRet,
          curdir, output_dir, num_qubits, num_creg, config,
          platform, program, kernel>>

names == <<curdir, output_dir, num_qubits, num_creg, config,
           platform, program, kernel>>

\* ------------------------------------------------------------ os.path
RECURSIVE SeqsUpTo(_, _)
SeqsUpTo(S, n) ==
  IF n = 0 THEN {<<>>}
  ELSE LET shorter == SeqsUpTo(S, n - 1)
       IN  shorter \cup {Append(s, x) : s \in {t \in shorter : Len(t) = n - 1}, x \in S}

\* the paths the interpreter may hand the script as __file__
ScriptPaths == {p \o <<"example.py">> : p \in SeqsUpTo({"/", "a"}, MaxPrefix)}

\* p.rfind('/') + 1
rfind1(p) ==
  LET S == {i \in 1..Len(p) : p[i] = "/"}
  IN  IF S = {} THEN 0 ELSE CHOOSE i \in S : \A j \in S : j <= i

RECURSIVE rstrip(_)
rstrip(s) ==
  IF s # <<>> /\ s[Len(s)] = "/" THEN rstrip(SubSeq(s, 1, Len(s) - 1)) ELSE s

\* posixpath.dirname
dirname(p) ==
  LET head == SubSeq(p, 1, rfind1(p))
  IN  IF head # <<>> /\ (\E i \in 1..Len(head) : head[i] # "/")
      THEN rstrip(head) ELSE head

\* posixpath.join(a, b)
join(a, b) ==
  IF b # <<>> /\ b[1] = "/" THEN b
  ELSE IF a = <<>> \/ a[Len(a)] = "/" THEN a \o b
  ELSE a \o <<"/">> \o b

\* --------------------------------------------------------- control flow
\* the lines of the file that hold a statement
Statements == {1, 2, 5, 6, 9, 10, 11, 12, 14, 15, 16, 19, 20, 21,
               23, 24, 26, 27, 29, 31, 33, 34}

\* mutant: the last option is set only after the Platform has been built
NextLineReordered(l) ==
  CASE l = 11 -> 14
    [] l = 19 -> 12
    [] l = 12 -> 20
    [] OTHER  -> LET later == {s \in Statements : s > l}
                 IN  IF later = {} THEN EndOfScript
                     ELSE CHOOSE s \in later : \A t \in later : s <= t

\* mutant: the first gate is skipped when the Kernel constructor returned 2
NextLineBranching(l) ==
  LET later == {s \in Statements : s > l}
  IN  IF l = 21 /\ lastRet = 2 THEN 24
      ELSE IF later = {} THEN EndOfScript
      ELSE CHOOSE s \in later : \A t \in later : s <= t

\* mutant: the gate block is run again after the last gate
NextLineLooping(l) ==
  LET later == {s \in Statements : s > l}
  IN  IF l = 31 /\ executed[31] = 1 THEN 23
      ELSE IF later = {} THEN EndOfScript
      ELSE CHOOSE s \in later : \A t \in later : s <= t

\* the statement executed after the one at line l: the next one in the file
NextLine(l) ==
  LET later == {s \in Statements : s > l}
  IN  IF later = {} THEN EndOfScript
      ELSE CHOOSE s \in later : \A t \in later : s <= t

\* a library call as the library sees it
Call(l, fn, name, str, qubits, recv, obj, nq, nc) ==
  <<l, fn, name, str, qubits, recv, obj, nq, nc>>

\* the parts of a call: the line it is made at, the function called, its
\* first (string) argument, its path or option value, its qubit list, the
\* object it is called on, the object passed, and the two counts
LineOf(c) == c[1]
FnOf(c) == c[2]
NameOf(c) == c[3]
StrOf(c) == c[4]
QubitsOf(c) == c[5]
RecvOf(c) == c[6]
ObjOf(c) == c[7]
NqOf(c) == c[8]
NcOf(c) == c[9]

\* the statement at line l starts
Start(l) ==
  /\ pc = l
  /\ active = {}
  /\ executed' = [executed EXCEPT ![l] = @ + 1]

\* a statement that is not a call: it ends where it starts
Step(l) ==
  /\ Start(l)
  /\ pc' = NextLine(l)
  /\ UNCHANGED <<file, active, exc, calls, lastRet>>

\* a statement that calls the library: control passes to the library
Invoke(l, c) ==
  /\ Start(l)
  /\ "ql" \in imported
  /\ calls' = Append(calls, c)
  /\ active' = active \cup {l}
  /\ UNCHANGED <<file, pc, exc, imported, lastRet, names>>

Init ==
  /\ file \in ScriptPaths
  /\ pc = 1
  /\ active = {}
  /\ exc = 0
  /\ calls = <<>>
  /\ executed = [l \in Statements |-> 0]
  /\ imported = {}
  /\ lastRet = 0
  /\ curdir = UnboundStr
  /\ output_dir = UnboundStr
  /\ num_qubits = UnboundInt
  /\ num_creg = UnboundInt
  /\ config = UnboundStr
  /\ platform = UnboundObj
  /\ program = UnboundObj
  /\ kernel = UnboundObj

\* ------------------------------------------------------------ statements
L1_import_os ==
  /\ Step(1)
  /\ imported' = imported \cup {"os"}
  /\ UNCHANGED names

L2_import_ql ==
  /\ Step(2)
  /\ imported' = imported \cup {"ql"}
  /\ UNCHANGED names

L5_curdir ==
  /\ Step(5)
  /\ "os" \in imported
  /\ curdir' = dirname(file)
  /\ UNCHANGED <<imported, output_dir, num_qubits, num_creg, config,
                 platform, program, kernel>>

L6_output_dir ==
  /\ Step(6)
  /\ "os" \in imported
  /\ output_dir' = join(curdir, <<"output">>)
  /\ UNCHANGED <<imported, curdir, num_qubits, num_creg, config,
                 platform, program, kernel>>

L9_set_option ==
  Invoke(9, Call(9, "set_option", "output_dir", output_dir, <<>>, 0, 0, 0, 0))

\* mutant: the scheduler key is written in place of the optimize key
L10_set_option_wrong_key ==
  Invoke(10, Call(10, "set_option", "scheduler", <<"no">>, <<>>, 0, 0, 0, 0))

L10_set_option ==
  Invoke(10, Call(10, "set_option", "optimize", <<"no">>, <<>>, 0, 0, 0, 0))

L11_set_option ==
  Invoke(11, Call(11, "set_option", "scheduler", <<"ASAP">>, <<>>, 0, 0, 0, 0))

L12_set_option ==
  Invoke(12, Call(12, "set_option", "log_level", <<"LOG_DEBUG">>, <<>>, 0, 0, 0, 0))

L14_num_qubits ==
  /\ Step(14)
  /\ num_qubits' = 2
  /\ UNCHANGED <<imported, curdir, output_dir, num_creg, config,
                 platform, program, kernel>>

L15_num_creg ==
  /\ Step(15)
  /\ num_creg' = 0
  /\ UNCHANGED <<imported, curdir, output_dir, num_qubits, config,
                 platform, program, kernel>>

L16_config ==
  /\ Step(16)
  /\ "os" \in imported
  /\ config' = join(curdir, <<"hardware_config_crossbar.json">>)
  /\ UNCHANGED <<imported, curdir, output_dir, num_qubits, num_creg,
                 platform, program, kernel>>

L19_Platform ==
  Invoke(19, Call(19, "Platform", "crossbar", config, <<>>, 0, 0, 0, 0))

L20_Program ==
  Invoke(20, Call(20, "Program", "crossbar_test", <<>>, <<>>, 0, platform,
                  num_qubits, num_creg))

\* mutant: the kernel is built for one qubit more than the program
L21_Kernel_other_size ==
  Invoke(21, Call(21, "Kernel", "test", <<>>, <<>>, 0, platform,
                  num_qubits + 1, num_creg))

L21_Kernel ==
  Invoke(21, Call(21, "Kernel", "test", <<>>, <<>>, 0, platform,
                  num_qubits, num_creg))

L23_gate ==
  Invoke(23, Call(23, "gate", "pepez", <<>>, <<0>>, kernel, 0, 0, 0))

\* mutant: the statement is lost, nothing is appended
L24_gate_dropped ==
  /\ Step(24)
  /\ UNCHANGED <<imported, names>>

L24_gate ==
  Invoke(24, Call(24, "gate", "prepz", <<>>, <<1>>, kernel, 0, 0, 0))

L26_gate ==
  Invoke(26, Call(26, "gate", "x", <<>>, <<0>>, kernel, 0, 0, 0))

L27_gate ==
  Invoke(27, Call(27, "gate", "cnot", <<>>, <<0, 1>>, kernel, 0, 0, 0))

\* mutant: the shuttle addresses a qubit the kernel does not have
L29_gate_out_of_range ==
  Invoke(29, Call(29, "gate", "shuttle_up", <<>>, <<2>>, kernel, 0, 0, 0))

L29_gate ==
  Invoke(29, Call(29, "gate", "shuttle_up", <<>>, <<1>>, kernel, 0, 0, 0))

L31_gate ==
  Invoke(31, Call(31, "gate", "measure", <<>>, <<1>>, kernel, 0, 0, 0))

\* mutant: the kernel is never added
L33_add_kernel_dropped ==
  /\ Step(33)
  /\ UNCHANGED <<imported, names>>

L33_add_kernel ==
  Invoke(33, Call(33, "add_kernel", "", <<>>, <<>>, program, kernel, 0, 0))

L34_compile ==
  Invoke(34, Call(34, "compile", "", <<>>, <<>>, program, 0, 0, 0))

\* ------------------------------------------------------------ the library
\* the call started at line l returns v: an assignment statement binds the
\* value, an expression statement discards it; the next statement follows
LibReturn ==
  \E l \in active, v \in 1..NumResults :
    /\ active' = active \ {l}
    /\ lastRet' = v
    /\ platform' = IF l = 19 THEN v ELSE platform
    /\ program' = IF l = 20 THEN v ELSE program
    /\ kernel' = IF l = 21 THEN v ELSE kernel
    /\ pc' = NextLine(l)
    /\ UNCHANGED <<file, exc, calls, executed, imported,
                   curdir, output_dir, num_qubits, num_creg, config>>

\* mutant: the failure is swallowed and the script carries on
LibRaiseCaught ==
  \E l \in active :
    /\ active' = active \ {l}
    /\ exc' = l
    /\ pc' = NextLine(l)
    /\ UNCHANGED <<file, calls, executed, imported, lastRet, names>>

\* the call started at line l raises; nothing catches it, so the interpreter
\* leaves the script: no statement is left to execute
LibRaise ==
  \E l \in active :
    /\ active' = active \ {l}
    /\ exc' = l
    /\ pc' = EndOfScript
    /\ UNCHANGED <<file, calls, executed, imported, lastRet, names>>

Next ==
  \/ L1_import_os \/ L2_import_ql
  \/ L5_curdir \/ L6_output_dir
  \/ L9_set_option \/ L10_set_option \/ L11_set_option \/ L12_set_option
  \/ L14_num_qubits \/ L15_num_creg \/ L16_config
  \/ L19_Platform \/ L20_Program \/ L21_Kernel
  \/ L23_gate \/ L24_gate \/ L26_gate \/ L27_gate \/ L29_gate \/ L31_gate
  \/ L33_add_kernel \/ L34_compile
  \/ LibReturn \/ LibRaise

Spec == Init /\ [][Next]_vars

\* ------------------------------------------------------------ properties
\* positions in the call log of the calls to fn
Idx(fn) == {i \in DOMAIN calls : FnOf(calls[i]) = fn}

\* the script ran to its last line and nothing raised
Finished == pc = EndOfScript /\ exc = 0 /\ active = {}

Phase(fn) ==
  CASE fn = "set_option" -> 1
    [] fn \in {"Platform", "Program", "Kernel"} -> 2
    [] fn = "gate" -> 3
    [] fn \in {"add_kernel", "compile"} -> 4
    [] OTHER -> 0

Order(fn) ==
  CASE fn = "Platform" -> 1
    [] fn = "Program" -> 2
    [] fn = "Kernel" -> 3
    [] fn = "add_kernel" -> 4
    [] fn = "compile" -> 5
    [] OTHER -> 0

\* C1: the calls come in four phases that never interleave: options, then
\* Platform, Program, Kernel in that order, then gates, then add_kernel
\* followed by compile; a run that nothing interrupts goes through all four.
C1_PhasesInOrder ==
  /\ \A i, j \in DOMAIN calls :
       i < j => /\ Phase(FnOf(calls[i])) \in 1..4
                /\ Phase(FnOf(calls[i])) <= Phase(FnOf(calls[j]))
                /\ Phase(FnOf(calls[i])) = Phase(FnOf(calls[j]))
                     => Order(FnOf(calls[i])) <= Order(FnOf(calls[j]))
  /\ Finished => {Phase(FnOf(calls[i])) : i \in DOMAIN calls} = 1..4

C1_Witness ==
  /\ Finished
  /\ \E i \in Idx("set_option"), j \in Idx("Kernel"), k \in Idx("gate"),
        m \in Idx("compile") : i < j /\ j < k /\ k < m

ExpectedGates ==
  << <<"pepez", <<0>> >>, <<"prepz", <<1>> >>, <<"x", <<0>> >>,
     <<"cnot", <<0, 1>> >>, <<"shuttle_up", <<1>> >>, <<"measure", <<1>> >> >>

IsGate(c) == FnOf(c) = "gate"

\* the gates the object k has received in the first n calls
GatesReceived(k, n) ==
  LET g == SelectSeq(SubSeq(calls, 1, n), LAMBDA c : IsGate(c) /\ RecvOf(c) = k)
  IN  [i \in 1..Len(g) |-> <<NameOf(g[i]), QubitsOf(g[i])>>]

\* C2: when add_kernel is called, the kernel handed over has received exactly
\* the six gates pepez[0], prepz[1], x[0], cnot[0,1], shuttle_up[1],
\* measure[1], in that order.
C2_GateList ==
  \A i \in Idx("add_kernel") :
    GatesReceived(ObjOf(calls[i]), i - 1) = ExpectedGates

C2_Witness == 33 \in active /\ Len(calls) = 14

ExpectedOptions ==
  {<<"optimize", <<"no">> >>, <<"scheduler", <<"ASAP">> >>,
   <<"log_level", <<"LOG_DEBUG">> >>}

\* the path p names the entry called leaf in the directory of the script
Beside(p, leaf) ==
  /\ p # <<>>
  /\ p[Len(p)] = leaf
  /\ dirname(p) = dirname(file)

\* C3: exactly the keys output_dir, optimize, scheduler and log_level are
\* set, each once, to the 'output' directory beside the script, 'no', 'ASAP'
\* and 'LOG_DEBUG'; all four are set before the Platform is constructed and
\* before compile is called, and no option is set after that.
C3_Options ==
  /\ \A i \in Idx("set_option") :
       \/ <<NameOf(calls[i]), StrOf(calls[i])>> \in ExpectedOptions
       \/ NameOf(calls[i]) = "output_dir" /\ Beside(StrOf(calls[i]), "output")
  /\ \A i, j \in Idx("set_option") : NameOf(calls[i]) = NameOf(calls[j]) => i = j
  /\ \A j \in Idx("Platform") \cup Idx("compile") :
       /\ \A i \in Idx("set_option") : i < j
       /\ Cardinality({i \in Idx("set_option") : i < j}) = 4

C3_Witness ==
  /\ Idx("compile") # {}
  /\ Cardinality(Idx("set_option")) = 4
  /\ Len(file) > 1

\* C4: a call that raises ends the script: it is the last library call ever
\* made; when the first gate (pepez) raises, the kernel has received no
\* other gate and add_kernel and compile have not been called.
C4_RaiseStops ==
  /\ exc # 0 =>
       /\ calls # <<>>
       /\ LineOf(calls[Len(calls)]) = exc
       /\ active = {}
       /\ pc = EndOfScript
  /\ exc = 23 =>
       /\ Cardinality(Idx("gate")) = 1
       /\ Idx("add_kernel") = {}
       /\ Idx("compile") = {}

C4_Witness == exc = 23 /\ NameOf(calls[Len(calls)]) = "pepez"

\* what the script passes besides object handles
Plain(c) ==
  <<FnOf(c), NameOf(c), IF FnOf(c) = "set_option" THEN StrOf(c) ELSE <<>>, QubitsOf(c), NqOf(c), NcOf(c)>>

ExpectedCalls ==
  << <<"set_option", "output_dir", join(dirname(file), <<"output">>), <<>>, 0, 0>>,
     <<"set_option", "optimize", <<"no">>, <<>>, 0, 0>>,
     <<"set_option", "scheduler", <<"ASAP">>, <<>>, 0, 0>>,
     <<"set_option", "log_level", <<"LOG_DEBUG">>, <<>>, 0, 0>>,
     <<"Platform", "crossbar", <<>>, <<>>, 0, 0>>,
     <<"Program", "crossbar_test", <<>>, <<>>, 2, 0>>,
     <<"Kernel", "test", <<>>, <<>>, 2, 0>>,
     <<"gate", "pepez", <<>>, <<0>>, 0, 0>>,
     <<"gate", "prepz", <<>>, <<1>>, 0, 0>>,
     <<"gate", "x", <<>>, <<0>>, 0, 0>>,
     <<"gate", "cnot", <<>>, <<0, 1>>, 0, 0>>,
     <<"gate", "shuttle_up", <<>>, <<1>>, 0, 0>>,
     <<"gate", "measure", <<>>, <<1>>, 0, 0>>,
     <<"add_kernel", "", <<>>, <<>>, 0, 0>>,
     <<"compile", "", <<>>, <<>>, 0, 0>> >>

\* C5: whatever the library returns, the calls made so far (names, gate
\* names, qubit indices, options, counts) are the first calls of one fixed
\* list, and a run that nothing interrupts makes all of them.
C5_CallsFixed ==
  /\ Len(calls) <= Len(ExpectedCalls)
  /\ \A i \in DOMAIN calls : Plain(calls[i]) = ExpectedCalls[i]
  /\ Finished => Len(calls) = Len(ExpectedCalls)

C5_Witness ==
  /\ Finished
  /\ platform # program
  /\ kernel = NumResults
  /\ lastRet = 1

\* C6: one thread of control: at most one library call is in progress, a
\* call starts only when the previous one has ended, statements run top to
\* bottom and none is executed twice.
C6_SingleThread ==
  /\ Cardinality(active) <= 1
  /\ \A l \in active : calls # <<>> /\ LineOf(calls[Len(calls)]) = l /\ pc = l
  /\ \A l \in Statements : executed[l] <= 1
  /\ \A l \in Statements : executed[l] = 1 => l <= pc
  /\ \A i, j \in DOMAIN calls : i < j => LineOf(calls[i]) < LineOf(calls[j])

C6_Witness == active = {27} /\ executed[27] = 1 /\ executed[29] = 0

\* C7: add_kernel and compile are each called once, compile only after
\* add_kernel has returned, no gate is appended after add_kernel, and when
\* compile has returned the script is over without any further call.
C7_AddThenCompile ==
  /\ Cardinality(Idx("add_kernel")) <= 1
  /\ Cardinality(Idx("compile")) <= 1
  /\ Finished => Idx("add_kernel") # {} /\ Idx("compile") # {}
  /\ \A i \in Idx("compile") :
       /\ \E j \in Idx("add_kernel") : j < i
       /\ 33 \notin active
       /\ i = Len(calls)
       /\ active = {} => pc = EndOfScript
  /\ \A i \in Idx("add_kernel"), j \in Idx("gate") : j < i
  /\ Idx("qasm") = {}

C7_Witness ==
  /\ Finished
  /\ FnOf(calls[Len(calls)]) = "compile"
  /\ FnOf(calls[Len(calls) - 1]) = "add_kernel"

\* C8: every qubit index given to kernel.gate lies in 0 .. num_qubits - 1
\* with num_qubits = 2, and the two operands of cnot differ.
C8_QubitsInRange ==
  \A i \in Idx("gate") :
    /\ num_qubits = 2
    /\ \A k \in DOMAIN QubitsOf(calls[i]) :
         QubitsOf(calls[i])[k] >= 0 /\ QubitsOf(calls[i])[k] < num_qubits
    /\ NameOf(calls[i]) = "cnot" =>
         Len(QubitsOf(calls[i])) = 2 /\ QubitsOf(calls[i])[1] # QubitsOf(calls[i])[2]

C8_Witness ==
  /\ \E i \in Idx("gate") : NameOf(calls[i]) = "cnot"
  /\ \E i \in Idx("gate") : NameOf(calls[i]) = "measure"

\* C9: Program and Kernel are built on the Platform object the one Platform
\* call returned, with the same counts (2 qubits, 0 classical registers);
\* that kernel is the one added to that program; the Platform is built once,
\* from 'hardware_config_crossbar.json' beside the script.
C9_SamePlatform ==
  /\ Cardinality(Idx("Platform")) <= 1
  /\ \A i \in Idx("Platform") :
       NameOf(calls[i]) = "crossbar"
         /\ Beside(StrOf(calls[i]), "hardware_config_crossbar.json")
  /\ \A i \in Idx("Program") \cup Idx("Kernel") :
       /\ Idx("Platform") # {}
       /\ platform \in 1..NumResults
       /\ ObjOf(calls[i]) = platform
       /\ NqOf(calls[i]) = 2
       /\ NcOf(calls[i]) = 0
  /\ \A i \in Idx("Program"), j \in Idx("Kernel") :
       /\ ObjOf(calls[i]) = ObjOf(calls[j])
       /\ NqOf(calls[i]) = NqOf(calls[j])
       /\ NcOf(calls[i]) = NcOf(calls[j])
  /\ \A i \in Idx("add_kernel") :
       /\ Idx("Program") # {} /\ Idx("Kernel") # {}
       /\ RecvOf(calls[i]) = program
       /\ ObjOf(calls[i]) = kernel

C9_Witness ==
  /\ Idx("add_kernel") # {}
  /\ platform = NumResults
  /\ program # kernel

====
